---- MODULE Spec2Model ----
(***************************************************************************)
(* Two-token AMM (NEAR contract, contract/src/lib.rs).                     *)
(*                                                                         *)
(* The contract state is the owner and two token slots (address, balance,  *)
(* optional metadata).  Cross-contract calls are promises: the receipts    *)
(* that are in flight are kept in the bag `promises`, and a callback       *)
(* action runs when one of them resolves, in any order.                    *)
(*                                                                         *)
(* Balance is u128.  The model keeps the width: a balance is a Width-bit   *)
(* unsigned integer.  u128 `+`, `*` and `pow` panic on overflow when the   *)
(* crate is built with overflow checks and wrap otherwise; which of the    *)
(* two builds runs is the variable overflow_checks, fixed at Init.  U256   *)
(* products of two balances never overflow and are exact.  A panic aborts  *)
(* the call and rolls the contract state back.                             *)
(*                                                                         *)
(* Spec is the whole contract.  SpecSwap (deposits and swaps from          *)
(* construction on; SpecSwapFair with every transfer answered), SpecRatio  *)
(* (get_ratio and one swap on a funded pool with metadata), SpecMetadata   *)
(* (the metadata queries and the views), SpecFrame (every operation, three *)
(* amounts) and SpecLedger (deposits, swaps and plain transfers with token *)
(* contracts that keep a ledger) are the parts of it the properties are    *)
(* checked on.                                                             *)
(* `last` is the log of the call that ran last; a property of one call is  *)
(* stated on the step that wrote it.  `held` is the entry of the AMM's     *)
(* account in each token contract's ledger (none until the account is      *)
(* registered with the token) and `inflight` the receipts of               *)
(* the token contracts around a transfer to the AMM; the parts other than  *)
(* SpecLedger leave the ledgers out and let a transfer succeed or fail.    *)
(***************************************************************************)
EXTENDS Integers, Sequences, FiniteSets, Bags, TLC

VARIABLES overflow_checks, owner, tokens, promises, calls, last, held, inflight

vars == <<overflow_checks, owner, tokens, promises, calls, last, held, inflight>>

\* ----------------------------------------------------------------- bounds
\* Width of the balance type in the model (u128 in the source).
Width == 4
\* Number of state-changing calls (ft_on_transfer, update_metadata, and the
\* ft_transfer, mint and burn of a token contract on the AMM's account)
\* explored in one behaviour.
MaxCalls == 3
\* Largest `decimals` a token contract answers in the model (u8 in the source).
\* 10^MaxDecimals wraps to 0 in Width bits, as 10^128 does in u128.
MaxDecimals == 4

\* u128::MAX
MAX == 2^Width - 1

\* ------------------------------------------------------------ the accounts
OwnerAccount == "owner"
Users == {"alice"}
TokenAccounts == {"ta", "tb", "tc"}
Accounts == {OwnerAccount} \cup Users \cup TokenAccounts

\* Amounts carried by inbound transfer notifications.
Amounts == {0, 1, 2, MAX \div 2, MAX \div 2 + 1, MAX}
\* The decimals a token contract answers: 0 and 1 (the power fits the balance
\* type), 2 (the power exceeds MAX and wraps to a value other than 0), and
\* Width and MaxDecimals (the power wraps to 0).
Decimals == {0, 1, 2, Width, MaxDecimals}

\* ------------------------------------------------------- Option<T>, results
None == <<>>
Some(v) == <<v>>
is_some(o) == Len(o) = 1
unwrap(o) == o[1]

\* Outcome of a call: a returned value, a returned promise, or a panic.
Value(v) == [status |-> "value", value |-> v, msg |-> ""]
Pending == [status |-> "promise", value |-> 0, msg |-> ""]
Panic(m) == [status |-> "panic", value |-> 0, msg |-> m]

\* --------------------------------------------------------- u128 arithmetic
\* x + y on u128.
u128_add(chk, x, y) ==
    IF x + y <= MAX THEN [panic |-> FALSE, val |-> x + y]
    ELSE IF chk THEN [panic |-> TRUE, val |-> 0]
    ELSE [panic |-> FALSE, val |-> (x + y) % (MAX + 1)]

\* x * y on u128.
u128_mul(chk, x, y) ==
    IF x * y <= MAX THEN [panic |-> FALSE, val |-> x * y]
    ELSE IF chk THEN [panic |-> TRUE, val |-> 0]
    ELSE [panic |-> FALSE, val |-> (x * y) % (MAX + 1)]

\* 10_u128.pow(d)
u128_pow10(chk, d) ==
    IF 10^d <= MAX THEN [panic |-> FALSE, val |-> 10^d]
    ELSE IF chk THEN [panic |-> TRUE, val |-> 0]
    ELSE [panic |-> FALSE, val |-> (10^d) % (MAX + 1)]

\* ------------------------------------------------------------- the records
\* Token::new
Token_new(address) == [address |-> address, balance |-> 0, metadata |-> None]

\* TokenMetadata::new
TokenMetadata_new(name, symbol, decimals) ==
    [name |-> name, symbol |-> symbol, decimals |-> decimals]

\* What the token contract at `address` answers to ft_metadata.
ft_metadata(address, decimals) ==
    [name |-> address, symbol |-> address \o "_SYMBOL", decimals |-> decimals]

\* A receipt in flight: ft_metadata(token).then(metadata_callback(index)).
MetadataPromise(token, index) ==
    [kind |-> "ft_metadata", token |-> token, index |-> index,
     receiver |-> "", amount_out |-> 0,
     balance_a |-> 0, balance_b |-> 0, amount |-> 0,
     token_in |-> 0, rin |-> 0, rout |-> 0, clean |-> TRUE, result |-> ""]

\* A receipt in flight:
\* ft_transfer(receiver, amount_out).then(swap_callback(balance_a, balance_b, amount)).
\* token_in, rin, rout record the slot and the reserves the swap read; clean
\* is true until some other operation writes a balance; result is "" until
\* the token contract has run the transfer, then "ok" or "err".
TransferPromise(token, receiver, amount_out, balance_a, balance_b, amount, token_in, rin, rout) ==
    [kind |-> "ft_transfer", token |-> token, index |-> 0,
     receiver |-> receiver, amount_out |-> amount_out,
     balance_a |-> balance_a, balance_b |-> balance_b, amount |-> amount,
     token_in |-> token_in, rin |-> rin, rout |-> rout, clean |-> TRUE, result |-> ""]

NoPromise ==
    [kind |-> "none", token |-> "", index |-> 0,
     receiver |-> "", amount_out |-> 0,
     balance_a |-> 0, balance_b |-> 0, amount |-> 0,
     token_in |-> 0, rin |-> 0, rout |-> 0, clean |-> TRUE, result |-> ""]

\* ---------------------------------------------------------- AMM, internal
\* AMM::get_token_index
get_token_index(tk, token) ==
    IF token = tk[0].address THEN 0 ELSE 1

\* owner_deposit with `=` for `+=`: the deposit replaces the balance.
owner_deposit_overwrite(tk, chk, token_in, amount) ==
    [panic |-> FALSE, tokens |-> [tk EXCEPT ![token_in].balance = amount]]

\* AMM::owner_deposit: the new token slots, or a panic of the addition.
owner_deposit(tk, chk, token_in, amount) ==
    LET sum == u128_add(chk, tk[token_in].balance, amount)
    IN IF sum.panic
       THEN [panic |-> TRUE, tokens |-> tk]
       ELSE [panic |-> FALSE,
             tokens |-> [tk EXCEPT ![token_in].balance = sum.val]]

\* AMM::swap, the quote: new_balance_a and token_out_amount as the code
\* computes them (the sum in u128, the product and quotient in U256, the
\* quotient narrowed by as_u128), or the panic of one of these steps.
quote(tk, chk, token_in, amount) ==
    LET token_out == 1 - token_in
        sum == u128_add(chk, tk[token_in].balance, amount)
        new_balance_a == sum.val
        wide == tk[token_out].balance * amount
    IN IF sum.panic
       THEN [ret |-> Panic("attempt to add with overflow"),
             new_balance_a |-> 0, token_out_amount |-> 0]
       ELSE IF new_balance_a = 0
       THEN [ret |-> Panic("division by zero"),
             new_balance_a |-> 0, token_out_amount |-> 0]
       ELSE IF wide \div new_balance_a > MAX
       THEN [ret |-> Panic("Integer overflow when casting to u128"),
             new_balance_a |-> 0, token_out_amount |-> 0]
       ELSE [ret |-> Value(0),
             new_balance_a |-> new_balance_a,
             token_out_amount |-> wide \div new_balance_a]

\* swap without `require!(token_out_amount > 0)`.
swap_without_zero_check(tk, chk, sender_id, token_in, amount) ==
    LET token_out == 1 - token_in
        q == quote(tk, chk, token_in, amount)
    IN IF q.ret.status = "panic"
       THEN [ret |-> q.ret, promise |-> NoPromise, tokens |-> tk]
       ELSE IF ~(q.token_out_amount <= tk[token_out].balance)
       THEN [ret |-> Panic("Not enough funds to complete the trade."),
             promise |-> NoPromise, tokens |-> tk]
       ELSE [ret |-> Pending,
             promise |-> TransferPromise(
                 tk[token_out].address, sender_id, q.token_out_amount,
                 q.new_balance_a, tk[token_out].balance - q.token_out_amount, amount,
                 token_in, tk[token_in].balance, tk[token_out].balance),
             tokens |-> tk]

\* swap that writes the new balances when it issues the transfer, instead of
\* leaving the write to swap_callback.
swap_eager(tk, chk, sender_id, token_in, amount) ==
    LET token_out == 1 - token_in
        q == quote(tk, chk, token_in, amount)
    IN IF q.ret.status = "panic"
       THEN [ret |-> q.ret, promise |-> NoPromise, tokens |-> tk]
       ELSE IF ~(q.token_out_amount <= tk[token_out].balance)
       THEN [ret |-> Panic("Not enough funds to complete the trade."),
             promise |-> NoPromise, tokens |-> tk]
       ELSE IF ~(q.token_out_amount > 0)
       THEN [ret |-> Panic("Cannot swap for 0 tokens."),
             promise |-> NoPromise, tokens |-> tk]
       ELSE [ret |-> Pending,
             promise |-> TransferPromise(
                 tk[token_out].address, sender_id, q.token_out_amount,
                 q.new_balance_a, tk[token_out].balance - q.token_out_amount, amount,
                 token_in, tk[token_in].balance, tk[token_out].balance),
             tokens |-> [tk EXCEPT
                 ![token_in].balance = q.new_balance_a,
                 ![token_out].balance = tk[token_out].balance - q.token_out_amount]]

\* AMM::swap: a panic, or the promise it returns; the slots are not written.
swap(tk, chk, sender_id, token_in, amount) ==
    LET token_out == 1 - token_in
        q == quote(tk, chk, token_in, amount)
    IN IF q.ret.status = "panic"
       THEN [ret |-> q.ret, promise |-> NoPromise, tokens |-> tk]
       ELSE IF ~(q.token_out_amount <= tk[token_out].balance)
       THEN [ret |-> Panic("Not enough funds to complete the trade."),
             promise |-> NoPromise, tokens |-> tk]
       ELSE IF ~(q.token_out_amount > 0)
       THEN [ret |-> Panic("Cannot swap for 0 tokens."),
             promise |-> NoPromise, tokens |-> tk]
       ELSE [ret |-> Pending,
             promise |-> TransferPromise(
                 tk[token_out].address, sender_id, q.token_out_amount,
                 q.new_balance_a, tk[token_out].balance - q.token_out_amount, amount,
                 token_in, tk[token_in].balance, tk[token_out].balance),
             tokens |-> tk]

\* The guards, each dropped or weakened.
token_supported_any(tk, predecessor_id) == TRUE

amount_nonnegative(amount) == amount >= 0

\* AMM::ft_on_transfer, the two guards.
token_supported(tk, predecessor_id) ==
    predecessor_id = tk[0].address \/ predecessor_id = tk[1].address

amount_positive(amount) == amount > 0

\* ------------------------------------------------------------- AMM, views
\* AMM::get_metadata
get_metadata(tk, token) ==
    LET index == get_token_index(tk, token)
    IN IF is_some(tk[index].metadata)
       THEN [status |-> "value", value |-> tk[index].metadata, msg |-> ""]
       ELSE [status |-> "panic", value |-> None, msg |-> "Metadata is not initialized!"]

\* AMM::get_balance
get_balance(tk, token) ==
    Value(tk[get_token_index(tk, token)].balance)

\* get_ratio scaling both balances by slot 0's decimals.
get_ratio_decimals_of_slot_0(tk, chk) ==
    IF ~is_some(tk[0].metadata) THEN Panic("Metadata not initialized for index 0.")
    ELSE IF ~is_some(tk[1].metadata) THEN Panic("Metadata not initialized for index 1.")
    ELSE LET pa == u128_pow10(chk, unwrap(tk[0].metadata).decimals)
         IN IF pa.panic THEN Panic("attempt to multiply with overflow")
            ELSE IF pa.val = 0 THEN Panic("attempt to divide by zero")
            ELSE LET prod == u128_mul(chk, tk[0].balance \div pa.val,
                                           tk[1].balance \div pa.val)
                 IN IF prod.panic THEN Panic("attempt to multiply with overflow")
                    ELSE Value(prod.val)

\* get_ratio without the check of slot 1's metadata, reading absent decimals
\* as 0.
get_ratio_checking_slot_0_only(tk, chk) ==
    IF ~is_some(tk[0].metadata) THEN Panic("Metadata not initialized for index 0.")
    ELSE LET pa == u128_pow10(chk, unwrap(tk[0].metadata).decimals)
             pb == u128_pow10(chk, IF is_some(tk[1].metadata)
                                   THEN unwrap(tk[1].metadata).decimals ELSE 0)
         IN IF pa.panic \/ pb.panic THEN Panic("attempt to multiply with overflow")
            ELSE IF pa.val = 0 \/ pb.val = 0 THEN Panic("attempt to divide by zero")
            ELSE LET prod == u128_mul(chk, tk[0].balance \div pa.val,
                                           tk[1].balance \div pb.val)
                 IN IF prod.panic THEN Panic("attempt to multiply with overflow")
                    ELSE Value(prod.val)

\* AMM::get_ratio
get_ratio(tk, chk) ==
    IF ~is_some(tk[0].metadata) THEN Panic("Metadata not initialized for index 0.")
    ELSE IF ~is_some(tk[1].metadata) THEN Panic("Metadata not initialized for index 1.")
    ELSE LET pa == u128_pow10(chk, unwrap(tk[0].metadata).decimals)
             pb == u128_pow10(chk, unwrap(tk[1].metadata).decimals)
         IN IF pa.panic THEN Panic("attempt to multiply with overflow")
            ELSE IF pa.val = 0 THEN Panic("attempt to divide by zero")
            ELSE IF pb.panic THEN Panic("attempt to multiply with overflow")
            ELSE IF pb.val = 0 THEN Panic("attempt to divide by zero")
            ELSE LET balance_a == tk[0].balance \div pa.val
                     balance_b == tk[1].balance \div pb.val
                     prod == u128_mul(chk, balance_a, balance_b)
                 IN IF prod.panic THEN Panic("attempt to multiply with overflow")
                    ELSE Value(prod.val)

\* ------------------------------------------------------- receipts in flight
\* Every receipt of the bag b with its clean flag cleared: some operation has
\* written a balance since these swaps read the reserves.
MarkDirty(b) ==
    LET S == BagToSet(b)
        D == {[r EXCEPT !.clean = FALSE] : r \in S}
        n(r) == IF r \in S THEN b[r] ELSE 0
    IN [r \in D |-> n(r) + n([r EXCEPT !.clean = TRUE])]

Issue(b, pr) == b (+) SetToBag({pr})
Resolve(b, pr) == b (-) SetToBag({pr})

\* The record of the call that ran last: its name, its arguments, what it
\* returned, and the receipt it resolved (callbacks).
Call(op, predecessor_id, sender_id, token, amount, result, pr, ret) ==
    [op |-> op, predecessor_id |-> predecessor_id, sender_id |-> sender_id,
     token |-> token, amount |-> amount, result |-> result, pr |-> pr, ret |-> ret]

\* ------------------------------------------------------ the tokens' ledgers
\* The AMM's account in the ledger of each token contract (FungibleToken of
\* near-contract-standards: accounts, a map from account to u128 balance; its
\* arithmetic is checked in every build).  h[token] is the map's entry for
\* the AMM: None until the account is registered, then Some(balance).
Min(x, y) == IF x <= y THEN x ELSE y

\* FungibleToken::ft_balance_of for the AMM's account.
ft_balance_of(h, token) ==
    IF is_some(h[token]) THEN unwrap(h[token]) ELSE 0

\* FungibleToken::internal_register_account on the AMM's account.
internal_register_account(h, token) ==
    IF is_some(h[token])
    THEN [panic |-> TRUE, held |-> h]
    ELSE [panic |-> FALSE, held |-> [h EXCEPT ![token] = Some(0)]]

\* FungibleToken::internal_deposit on the AMM's account.
internal_deposit(h, token, amount) ==
    IF is_some(h[token]) /\ unwrap(h[token]) + amount <= MAX
    THEN [panic |-> FALSE, held |-> [h EXCEPT ![token] = Some(unwrap(@) + amount)]]
    ELSE [panic |-> TRUE, held |-> h]

\* FungibleToken::internal_withdraw on the AMM's account.
internal_withdraw(h, token, amount) ==
    IF is_some(h[token]) /\ amount <= unwrap(h[token])
    THEN [panic |-> FALSE, held |-> [h EXCEPT ![token] = Some(unwrap(@) - amount)]]
    ELSE [panic |-> TRUE, held |-> h]

\* FungibleToken::ft_resolve_transfer for a transfer of `amount` to the AMM
\* whose ft_on_transfer ended with `ret`: the unused amount (all of it when
\* the call failed), at most what the AMM's account holds by then, goes back.
ft_resolve_transfer(h, token, amount, ret) ==
    LET unused == IF ret.status = "value" THEN Min(amount, ret.value) ELSE amount
        refund == Min(ft_balance_of(h, token), unused)
    IN [held |-> IF refund > 0
                 THEN [h EXCEPT ![token] = Some(unwrap(@) - refund)]
                 ELSE h,
        used |-> amount - refund]

\* A receipt of a token contract in flight around ft_transfer_call(AMM,
\* amount): "ft_on_transfer" when the AMM's account is credited and the AMM
\* not yet called, "ft_resolve_transfer" when the AMM's call has ended with
\* `ret` and the refund has not run yet.
LedgerReceipt(kind, token, sender_id, amount, ret) ==
    [kind |-> kind, token |-> token, sender_id |-> sender_id, amount |-> amount, ret |-> ret]

\* Transfers to the AMM whose notification has not run yet.
Unnotified ==
    LET S == {rc \in BagToSet(inflight) : rc.kind = "ft_on_transfer"}
    IN BagCardinality([rc \in S |-> inflight[rc]])

\* ----------------------------------------------------------------- AMM::new
new(owner_id, token_a, token_b) ==
    LET tk == [i \in 0..1 |-> IF i = 0 THEN Token_new(token_a) ELSE Token_new(token_b)]
    IN [owner |-> owner_id,
        tokens |-> tk,
        promises |-> Issue(Issue(EmptyBag,
                        MetadataPromise(token_a, get_token_index(tk, token_a))),
                        MetadataPromise(token_b, get_token_index(tk, token_b)))]

Init ==
    /\ overflow_checks \in BOOLEAN
    /\ \E token_a \in {"ta"}, token_b \in {"ta", "tb"} :
         LET amm == new(OwnerAccount, token_a, token_b)
         IN /\ owner = amm.owner
            /\ tokens = amm.tokens
            /\ promises = amm.promises
    /\ calls = 0
    /\ last = Call("new", "", "", "", 0, "", NoPromise, Value(0))
    /\ held = [t \in TokenAccounts |-> None]
    /\ inflight = EmptyBag

\* ------------------------------------------------------ AMM::ft_on_transfer
\* The receipts of the calling token contract (inflight) are the caller's to
\* state: a step of ft_on_transfer or swap_callback is taken with them.
ft_on_transfer(predecessor_id, sender_id, amount) ==
    /\ calls < MaxCalls
    /\ calls' = calls + 1
    /\ UNCHANGED <<overflow_checks, owner, held>>
    /\ IF ~token_supported(tokens, predecessor_id)
       THEN /\ UNCHANGED <<tokens, promises>>
            /\ last' = Call("ft_on_transfer", predecessor_id, sender_id, "", amount, "",
                            NoPromise, Panic("Token not supported."))
       ELSE IF ~amount_positive(amount)
       THEN /\ UNCHANGED <<tokens, promises>>
            /\ last' = Call("ft_on_transfer", predecessor_id, sender_id, "", amount, "",
                            NoPromise, Panic("Amount must be positive."))
       ELSE LET token_in == get_token_index(tokens, predecessor_id)
            IN IF sender_id = owner
               THEN LET dep == owner_deposit(tokens, overflow_checks, token_in, amount)
                    IN IF dep.panic
                       THEN /\ UNCHANGED <<tokens, promises>>
                            /\ last' = Call("ft_on_transfer", predecessor_id, sender_id, "",
                                            amount, "", NoPromise,
                                            Panic("attempt to add with overflow"))
                       ELSE /\ tokens' = dep.tokens
                            /\ promises' = MarkDirty(promises)
                            /\ last' = Call("ft_on_transfer", predecessor_id, sender_id, "",
                                            amount, "", NoPromise, Value(0))
               ELSE LET sw == swap(tokens, overflow_checks, sender_id, token_in, amount)
                    IN IF sw.ret.status = "panic"
                       THEN /\ UNCHANGED <<tokens, promises>>
                            /\ last' = Call("ft_on_transfer", predecessor_id, sender_id, "",
                                            amount, "", NoPromise, sw.ret)
                       ELSE /\ tokens' = sw.tokens
                            /\ promises' = IF sw.tokens = tokens
                                           THEN Issue(promises, sw.promise)
                                           ELSE Issue(MarkDirty(promises), sw.promise)
                            /\ last' = Call("ft_on_transfer", predecessor_id, sender_id, "",
                                            amount, "", sw.promise, sw.ret)

\* ------------------------------------------------------- AMM::swap_callback
\* swap_callback without the is_err branch: it commits whatever the result.
swap_callback_tokens_commit_always(tk, balance_a, balance_b, amount, is_err) ==
    [tk EXCEPT ![0].balance = balance_a, ![1].balance = balance_b]

\* swap_callback without the write of tokens[1].balance.
swap_callback_tokens_slot_0_only(tk, balance_a, balance_b, amount, is_err) ==
    IF is_err
    THEN tk
    ELSE [tk EXCEPT ![0].balance = balance_a]

\* The slots after the callback ran with the result of the transfer.
swap_callback_tokens(tk, balance_a, balance_b, amount, is_err) ==
    IF is_err
    THEN tk
    ELSE [tk EXCEPT ![0].balance = balance_a, ![1].balance = balance_b]

\* swap_callback reporting the input amount as refundable whatever the result.
swap_callback_ret_refund_always(amount, is_err) ==
    Value(amount)

\* What the callback returns: the amount to refund to the sender.
swap_callback_ret(amount, is_err) ==
    IF is_err THEN Value(amount) ELSE Value(0)

swap_callback(pr, call_result) ==
    /\ pr \in BagToSet(promises)
    /\ pr.kind = "ft_transfer"
    /\ tokens' = swap_callback_tokens(tokens, pr.balance_a, pr.balance_b, pr.amount,
                                      call_result = "err")
    /\ promises' = IF call_result = "err"
                   THEN Resolve(promises, pr)
                   ELSE MarkDirty(Resolve(promises, pr))
    /\ last' = Call("swap_callback", "", "", "", pr.amount, call_result, pr,
                    swap_callback_ret(pr.amount, call_result = "err"))
    /\ UNCHANGED <<overflow_checks, owner, calls, held>>

\* ----------------------------------------------------- AMM::update_metadata
update_metadata(token) ==
    /\ calls < MaxCalls
    /\ calls' = calls + 1
    /\ UNCHANGED <<overflow_checks, owner, tokens, held, inflight>>
    /\ IF ~token_supported(tokens, token)
       THEN /\ UNCHANGED promises
            /\ last' = Call("update_metadata", "", "", token, 0, "", NoPromise,
                            Panic("Wrong token provided."))
       ELSE LET pr == MetadataPromise(token, get_token_index(tokens, token))
            IN /\ promises' = Issue(promises, pr)
               /\ last' = Call("update_metadata", "", "", token, 0, "", pr, Pending)

\* --------------------------------------------------- AMM::metadata_callback
\* #[callback_unwrap]: a failed ft_metadata call makes the callback panic.
metadata_callback_tokens(tk, call_result, index) ==
    [tk EXCEPT ![index].metadata =
        Some(TokenMetadata_new(call_result.name, call_result.symbol, call_result.decimals))]

metadata_callback_ok(pr, decimals) ==
    /\ pr \in BagToSet(promises)
    /\ pr.kind = "ft_metadata"
    /\ tokens' = metadata_callback_tokens(tokens, ft_metadata(pr.token, decimals), pr.index)
    /\ promises' = Resolve(promises, pr)
    /\ last' = Call("metadata_callback", "", "", pr.token, decimals, "ok", pr, Value(0))
    /\ UNCHANGED <<overflow_checks, owner, calls, held, inflight>>

\* metadata_callback taking the failed result as an empty record
\* (unwrap_or_default for callback_unwrap).
metadata_callback_err_writes_default(pr) ==
    /\ pr \in BagToSet(promises)
    /\ pr.kind = "ft_metadata"
    /\ tokens' = metadata_callback_tokens(tokens, [name |-> "", symbol |-> "", decimals |-> 0],
                                          pr.index)
    /\ promises' = Resolve(promises, pr)
    /\ last' = Call("metadata_callback", "", "", pr.token, 0, "err", pr, Value(0))
    /\ UNCHANGED <<overflow_checks, owner, calls, held, inflight>>

metadata_callback_err(pr) ==
    /\ pr \in BagToSet(promises)
    /\ pr.kind = "ft_metadata"
    /\ promises' = Resolve(promises, pr)
    /\ last' = Call("metadata_callback", "", "", pr.token, 0, "err", pr,
                    Panic("Callback computation 0 was not successful"))
    /\ UNCHANGED <<overflow_checks, owner, tokens, calls, held, inflight>>

\* -------------------------------------------------------------- view calls
view_get_ratio ==
    /\ last' = Call("get_ratio", "", "", "", 0, "", NoPromise,
                    get_ratio(tokens, overflow_checks))
    /\ UNCHANGED <<overflow_checks, owner, tokens, promises, calls, held, inflight>>

view_get_balance(token) ==
    /\ last' = Call("get_balance", "", "", token, 0, "", NoPromise,
                    get_balance(tokens, token))
    /\ UNCHANGED <<overflow_checks, owner, tokens, promises, calls, held, inflight>>

view_get_metadata(token) ==
    /\ last' = Call("get_metadata", "", "", token, 0, "", NoPromise,
                    get_metadata(tokens, token))
    /\ UNCHANGED <<overflow_checks, owner, tokens, promises, calls, held, inflight>>

\* ------------------------------------------------- the token contracts
\* A plain ft_transfer of `amount` of `token` to the AMM's account: the token
\* contract moves the tokens on its ledger and calls no method of the AMM.
ft_transfer(token, sender_id, amount) ==
    /\ calls + Unnotified < MaxCalls
    /\ amount > 0
    /\ ~internal_deposit(held, token, amount).panic
    /\ calls' = calls + 1
    /\ held' = internal_deposit(held, token, amount).held
    /\ last' = Call("ft_transfer", token, sender_id, "", amount, "", NoPromise, Value(0))
    /\ UNCHANGED <<overflow_checks, owner, tokens, promises, inflight>>

\* storage_deposit(account_id = AMM, registration_only) on the token contract:
\* it registers the account; for a registered account nothing changes.
storage_deposit(token) ==
    /\ ~internal_register_account(held, token).panic
    /\ held' = internal_register_account(held, token).held
    /\ last' = Call("storage_deposit", token, "", "", 0, "", NoPromise, Value(0))
    /\ UNCHANGED <<overflow_checks, owner, tokens, promises, calls, inflight>>

\* Contract::mint(AMM, amount) on the token contract: it registers the
\* account, which fails for a registered one, then deposits.
mint(token, amount) ==
    /\ calls + Unnotified < MaxCalls
    /\ ~internal_register_account(held, token).panic
    /\ ~internal_deposit(internal_register_account(held, token).held, token, amount).panic
    /\ calls' = calls + 1
    /\ held' = internal_deposit(internal_register_account(held, token).held, token, amount).held
    /\ last' = Call("mint", token, "", "", amount, "", NoPromise, Value(0))
    /\ UNCHANGED <<overflow_checks, owner, tokens, promises, inflight>>

\* Contract::burn(AMM, amount) on the token contract.
burn(token, amount) ==
    /\ calls + Unnotified < MaxCalls
    /\ ~internal_withdraw(held, token, amount).panic
    /\ calls' = calls + 1
    /\ held' = internal_withdraw(held, token, amount).held
    /\ last' = Call("burn", token, "", "", amount, "", NoPromise, Value(0))
    /\ UNCHANGED <<overflow_checks, owner, tokens, promises, inflight>>

\* ft_transfer_call(AMM, amount) of sender_id on the token contract, first
\* receipt: the ledger credits the AMM's account and schedules
\* ft_on_transfer on the AMM, then ft_resolve_transfer on itself.
ft_transfer_call(token, sender_id, amount) ==
    /\ calls + Unnotified < MaxCalls
    /\ amount > 0
    /\ ~internal_deposit(held, token, amount).panic
    /\ held' = internal_deposit(held, token, amount).held
    /\ inflight' = inflight (+) SetToBag({LedgerReceipt("ft_on_transfer", token, sender_id,
                                                        amount, Pending)})
    /\ last' = Call("ft_transfer_call", token, sender_id, "", amount, "", NoPromise, Pending)
    /\ UNCHANGED <<overflow_checks, owner, tokens, promises, calls>>

\* Second receipt: AMM::ft_on_transfer runs with the token contract as its
\* predecessor.  When it returns a value or panics the refund is due; when it
\* returns a promise the refund waits for swap_callback.
notified(rc) ==
    /\ rc \in BagToSet(inflight)
    /\ rc.kind = "ft_on_transfer"
    /\ ft_on_transfer(rc.token, rc.sender_id, rc.amount)
    /\ inflight' = IF last'.ret.status = "promise"
                   THEN inflight (-) SetToBag({rc})
                   ELSE (inflight (-) SetToBag({rc}))
                        (+) SetToBag({LedgerReceipt("ft_resolve_transfer", rc.token,
                                                    rc.sender_id, rc.amount, last'.ret)})

\* The receipt ft_transfer(receiver, amount_out) of a swap on the output
\* token's contract: it moves the tokens out of the AMM's account when the
\* account holds them and the receiver is registered, and fails otherwise.
\* The callback of the swap has not run yet.
ft_transfer_out(pr, registered) ==
    /\ pr \in BagToSet(promises)
    /\ pr.kind = "ft_transfer"
    /\ pr.result = ""
    /\ LET out == internal_withdraw(held, pr.token, pr.amount_out)
           ok == registered /\ ~out.panic
       IN /\ held' = IF ok THEN out.held ELSE held
          /\ promises' = Issue(Resolve(promises, pr),
                               [pr EXCEPT !.result = IF ok THEN "ok" ELSE "err"])
          /\ last' = Call("ft_transfer", "", "", pr.token, pr.amount_out,
                          IF ok THEN "ok" ELSE "err", pr, Value(0))
    /\ UNCHANGED <<overflow_checks, owner, tokens, calls, inflight>>

\* AMM::swap_callback with the result of the transfer that ran; what it
\* returns is what the input token's contract will refund.
called_back(pr) ==
    /\ pr.result # ""
    /\ swap_callback(pr, pr.result)
    /\ inflight' = inflight (+) SetToBag({LedgerReceipt("ft_resolve_transfer",
                                             tokens[pr.token_in].address, pr.receiver,
                                             pr.amount, last'.ret)})

\* Third receipt of ft_transfer_call: the refund.
resolved(rc) ==
    /\ rc \in BagToSet(inflight)
    /\ rc.kind = "ft_resolve_transfer"
    /\ held' = ft_resolve_transfer(held, rc.token, rc.amount, rc.ret).held
    /\ inflight' = inflight (-) SetToBag({rc})
    /\ last' = Call("ft_resolve_transfer", rc.token, rc.sender_id, "", rc.amount, "",
                    NoPromise,
                    Value(ft_resolve_transfer(held, rc.token, rc.amount, rc.ret).used))
    /\ UNCHANGED <<overflow_checks, owner, tokens, promises, calls>>

\* ------------------------------------------------------------ specification
\* A notification or a callback with the ledgers left out: the transfer
\* behind a notification is taken as made and the transfer of a swap
\* succeeds or fails.
Notify == \E p \in TokenAccounts, s \in {OwnerAccount} \cup Users, a \in Amounts :
            ft_on_transfer(p, s, a) /\ UNCHANGED inflight
UserNotify == \E p \in TokenAccounts, s \in Users, a \in Amounts :
            ft_on_transfer(p, s, a) /\ UNCHANGED inflight
SwapResolved == \E pr \in BagToSet(promises), r \in {"ok", "err"} :
            pr.result = "" /\ swap_callback(pr, r) /\ UNCHANGED inflight
MetadataRequested == \E t \in TokenAccounts : update_metadata(t)
MetadataResolved == \E pr \in BagToSet(promises), d \in Decimals : metadata_callback_ok(pr, d)
MetadataFailed == \E pr \in BagToSet(promises) : metadata_callback_err(pr)
BalanceRead == \E t \in TokenAccounts : view_get_balance(t)
MetadataRead == \E t \in TokenAccounts : view_get_metadata(t)
PlainTransfer == \E t \in TokenAccounts, s \in {OwnerAccount} \cup Users :
            ft_transfer(t, s, 1)

\* The same with the ledgers: the receipts of a transfer to the AMM and of a
\* swap's transfer, one step each, in any order.
LedgerAmounts == {1, 2, MAX}
LedgerTransferCall == \E t \in TokenAccounts, s \in {OwnerAccount} \cup Users, a \in LedgerAmounts :
            ft_transfer_call(t, s, a)
LedgerNotify == \E rc \in BagToSet(inflight) : notified(rc)
LedgerTransferOut == \E pr \in BagToSet(promises), registered \in BOOLEAN :
            ft_transfer_out(pr, registered)
LedgerSwapResolved == \E pr \in BagToSet(promises) : called_back(pr)
LedgerResolve == \E rc \in BagToSet(inflight) : resolved(rc)
LedgerRegister == \E t \in TokenAccounts : storage_deposit(t)
LedgerMint == \E t \in TokenAccounts : mint(t, 1)
LedgerBurn == \E t \in TokenAccounts : burn(t, 1)

\* The whole contract.
Next ==
    \/ Notify
    \/ SwapResolved
    \/ MetadataRequested
    \/ MetadataResolved
    \/ MetadataFailed
    \/ view_get_ratio
    \/ BalanceRead
    \/ MetadataRead
    \/ PlainTransfer
    \/ LedgerTransferCall
    \/ LedgerNotify
    \/ LedgerTransferOut
    \/ LedgerSwapResolved
    \/ LedgerResolve
    \/ LedgerRegister
    \/ LedgerMint
    \/ LedgerBurn

Spec == Init /\ [][Next]_vars

\* Deposits and swaps: the transfer notifications and the swap callbacks, from
\* construction on.  The two metadata queries of the constructor stay in
\* flight; metadata_callback writes only `metadata`, which neither
\* ft_on_transfer nor swap_callback reads.
NextSwap ==
    \/ Notify
    \/ SwapResolved

SpecSwap == Init /\ [][NextSwap]_vars

\* The same, with every external transfer answering at some time: a
\* swap_callback that can run does run.
SpecSwapFair == SpecSwap /\ WF_vars(SwapResolved)

\* The ratio: a pool of two distinct tokens whose owner has deposited any
\* balances and whose metadata queries have both been answered, with one call
\* left to explore: one swap of a user, its callback, and get_ratio.
InitRatio ==
    /\ overflow_checks \in BOOLEAN
    /\ owner = OwnerAccount
    /\ \E b0 \in 0..MAX, b1 \in 0..MAX, d0 \in Decimals, d1 \in Decimals :
         tokens = [i \in 0..1 |->
                     IF i = 0
                     THEN [address |-> "ta", balance |-> b0,
                           metadata |-> Some(TokenMetadata_new("ta", "ta_SYMBOL", d0))]
                     ELSE [address |-> "tb", balance |-> b1,
                           metadata |-> Some(TokenMetadata_new("tb", "tb_SYMBOL", d1))]]
    /\ promises = EmptyBag
    /\ calls = MaxCalls - 1
    /\ last = Call("metadata_callback", "", "", "tb", 0, "ok", NoPromise, Value(0))
    /\ held = [t \in TokenAccounts |-> IF t = tokens[0].address THEN Some(tokens[0].balance)
                                       ELSE IF t = tokens[1].address THEN Some(tokens[1].balance)
                                       ELSE None]
    /\ inflight = EmptyBag

NextRatio ==
    \/ UserNotify
    \/ SwapResolved
    \/ view_get_ratio

SpecRatio == InitRatio /\ [][NextRatio]_vars

\* The metadata: the queries of the constructor and of update_metadata, their
\* callbacks, and the three views, on the pool as constructed (no deposit).
NextMetadata ==
    \/ MetadataRequested
    \/ MetadataResolved
    \/ MetadataFailed
    \/ MetadataRead
    \/ BalanceRead
    \/ view_get_ratio

SpecMetadata == Init /\ [][NextMetadata]_vars

\* Every operation of the contract, the registration of the AMM's account
\* with a token and the plain transfer of that token, from construction on,
\* with the notifications carrying 0, 1 or the largest amount.
FrameAmounts == {0, 1, MAX}
FrameNotify == \E p \in TokenAccounts, s \in {OwnerAccount} \cup Users, a \in FrameAmounts :
            ft_on_transfer(p, s, a) /\ UNCHANGED inflight

\* The AMM's account is registered with the token of slot 0 only.
FrameRegister == storage_deposit(tokens[0].address)

NextFrame ==
    \/ FrameNotify
    \/ SwapResolved
    \/ MetadataRequested
    \/ MetadataResolved
    \/ MetadataFailed
    \/ view_get_ratio
    \/ BalanceRead
    \/ MetadataRead
    \/ FrameRegister
    \/ PlainTransfer

SpecFrame == Init /\ [][NextFrame]_vars

\* Deposits, swaps and plain transfers with token contracts that keep a
\* ledger: the AMM's account is registered with a token by storage_deposit,
\* every transfer to the AMM is an ft_transfer_call or an ft_transfer on the
\* token contract, and a swap's transfer runs on the output token's
\* ledger before its callback.  mint and burn on the AMM's account are left
\* to Spec.
NextLedger ==
    \/ LedgerTransferCall
    \/ LedgerNotify
    \/ LedgerTransferOut
    \/ LedgerSwapResolved
    \/ LedgerResolve
    \/ LedgerRegister
    \/ PlainTransfer

SpecLedger == Init /\ [][NextLedger]_vars

\* ================================================================== claims
\* The step just taken is a transfer notification that passed the two guards
\* of ft_on_transfer, for slot i.
AcceptedNotifyFor(i) ==
    /\ last'.op = "ft_on_transfer"
    /\ last'.amount > 0
    /\ IF last'.predecessor_id = tokens[0].address THEN i = 0
       ELSE (i = 1 /\ last'.predecessor_id = tokens[1].address)

\* The step just taken resolved a swap's transfer with the given result.
SwapCallbackStep(result) ==
    /\ last'.op = "swap_callback"
    /\ last'.result = result

\* The receipts of a bag, whatever their clean flags.
Receipts(b) == MarkDirty(b)

ArithmeticPanics ==
    {"attempt to add with overflow", "division by zero",
     "Integer overflow when casting to u128"}

\* C1 (the claim as stated; the code violates it).  When the transfer
\* succeeded, swap_callback commits balance[input slot] = the input slot's
\* balance at initiation + amount and balance[output slot] = the output slot's
\* balance at initiation - amount_out, and returns 0, whichever slot received
\* the input token.
C1_CommitWritesInputAndOutputSlot ==
    [][ SwapCallbackStep("ok") =>
          LET pr == last'.pr
          IN /\ tokens'[pr.token_in].balance = pr.rin + pr.amount
             /\ tokens'[1 - pr.token_in].balance = pr.rout - pr.amount_out
             /\ last'.ret = Value(0) ]_vars

\* C2.  When the transfer failed, swap_callback leaves both slots as they are
\* and returns the whole input amount as refundable; and if nothing else
\* wrote a balance since the swap was initiated, both balances are the ones
\* the swap read at initiation.
C2_FailedTransferRollsBack ==
    [][ SwapCallbackStep("err") =>
          LET pr == last'.pr
          IN /\ tokens' = tokens
             /\ last'.ret = Value(pr.amount)
             /\ pr.clean => /\ tokens'[pr.token_in].balance = pr.rin
                            /\ tokens'[1 - pr.token_in].balance = pr.rout ]_vars

\* A failed callback of a swap that nothing interleaved with has run.
C2_Witness ==
    /\ last.op = "swap_callback"
    /\ last.result = "err"
    /\ last.pr.clean
    /\ last.pr.amount > 0
    /\ last.ret = Value(last.pr.amount)
    /\ tokens[last.pr.token_in].balance = last.pr.rin
    /\ tokens[1 - last.pr.token_in].balance = last.pr.rout
    /\ last.pr.rout > 0

\* C3 (the claim as stated).  An owner's notification from a configured token
\* with amount > 0 adds exactly amount to that token's slot, leaves the other
\* slot alone, issues no external call and returns 0.
C3_OwnerDepositAddsAmount ==
    [][ \A i \in 0..1 :
          (AcceptedNotifyFor(i) /\ last'.sender_id = owner) =>
             /\ tokens'[i].balance = tokens[i].balance + last'.amount
             /\ tokens'[1 - i] = tokens[1 - i]
             /\ Receipts(promises') = Receipts(promises)
             /\ last'.ret = Value(0) ]_vars

\* C3 (amended).  The same, when balance + amount fits the balance type; when
\* it does not, a build with overflow checks aborts the call and changes
\* nothing, and a build without them stores the sum modulo 2^Width.  The other
\* slot is unchanged and no external call is issued in every case.
C3_OwnerDepositAddsAmountIfItFits ==
    [][ \A i \in 0..1 :
          (AcceptedNotifyFor(i) /\ last'.sender_id = owner) =>
             /\ tokens'[1 - i] = tokens[1 - i]
             /\ Receipts(promises') = Receipts(promises)
             /\ tokens'[i].metadata = tokens[i].metadata
             /\ IF tokens[i].balance + last'.amount <= MAX
                THEN /\ tokens'[i].balance = tokens[i].balance + last'.amount
                     /\ last'.ret = Value(0)
                ELSE IF overflow_checks
                THEN /\ tokens'[i].balance = tokens[i].balance
                     /\ last'.ret.status = "panic"
                ELSE /\ tokens'[i].balance =
                          (tokens[i].balance + last'.amount) % (MAX + 1)
                     /\ last'.ret = Value(0) ]_vars

\* An owner deposit on top of an existing balance has been committed, with the
\* other slot funded.
C3_Witness ==
    /\ last.op = "ft_on_transfer"
    /\ last.sender_id = owner
    /\ last.ret = Value(0)
    /\ last.predecessor_id = tokens[1].address
    /\ tokens[0].address # tokens[1].address
    /\ overflow_checks
    /\ tokens[1].balance > last.amount
    /\ tokens[0].balance > 0

\* C4 (the claim as stated; the code violates it).  A user's swap that passes
\* validation asks the other slot's token to send the initiator exactly
\* floor(Rout * amount_in / (Rin + amount_in)), Rin and Rout the recorded
\* balances at the notification.
C4_TransferIsConstantProductQuote ==
    [][ \A i \in 0..1 :
          (AcceptedNotifyFor(i) /\ last'.sender_id # owner
                                /\ last'.ret.status = "promise") =>
             LET pr == last'.pr
             IN /\ pr.kind = "ft_transfer"
                /\ pr.receiver = last'.sender_id
                /\ pr.token = tokens[1 - i].address
                /\ pr.amount_out = (tokens[1 - i].balance * last'.amount)
                                      \div (tokens[i].balance + last'.amount)
                /\ promises' = Issue(promises, pr) ]_vars

\* C5.  A notification whose predecessor is neither configured token address
\* is rejected: no slot changes and no receipt is issued, for any sender and
\* any amount.
C5_ForeignTokenRejected ==
    [][ (/\ last'.op = "ft_on_transfer"
         /\ last'.predecessor_id # tokens[0].address
         /\ last'.predecessor_id # tokens[1].address) =>
          /\ tokens' = tokens
          /\ promises' = promises
          /\ last'.ret.status = "panic" ]_vars

\* A foreign token has notified a funded pool of a positive amount sent by the
\* owner, and was rejected.
C5_Witness ==
    /\ last.op = "ft_on_transfer"
    /\ last.predecessor_id # tokens[0].address
    /\ last.predecessor_id # tokens[1].address
    /\ last.sender_id = owner
    /\ last.amount > 0
    /\ last.ret = Panic("Token not supported.")
    /\ tokens[0].balance > 0

\* C6.  A user's swap whose quoted output (token_out_amount as swap computes
\* it) is zero is rejected with no receipt issued and no slot changed; so is
\* every swap against an empty output reserve, and every swap whose input is
\* too small for the reserves (Rout * amount < Rin + amount, the sum fitting
\* the balance type).
C6_ZeroQuoteRejected ==
    [][ \A i \in 0..1 :
          (/\ AcceptedNotifyFor(i)
           /\ last'.sender_id # owner
           /\ LET q == quote(tokens, overflow_checks, i, last'.amount)
              IN \/ (q.ret.status = "value" /\ q.token_out_amount = 0)
                 \/ tokens[1 - i].balance = 0
                 \/ /\ tokens[i].balance + last'.amount <= MAX
                    /\ tokens[1 - i].balance * last'.amount
                          < tokens[i].balance + last'.amount) =>
             /\ tokens' = tokens
             /\ promises' = promises
             /\ last'.ret.status = "panic" ]_vars

\* A user's swap against funded reserves was rejected for a zero quote.
C6_Witness ==
    /\ last.op = "ft_on_transfer"
    /\ last.sender_id # owner
    /\ last.amount > 0
    /\ last.ret = Panic("Cannot swap for 0 tokens.")
    /\ tokens[0].balance > 0
    /\ tokens[1].balance > 0

\* C7.  A notification with amount 0 is rejected for every sender, with no
\* slot changed and no receipt issued; and swap with amount 0 fails in every
\* state.
C7_ZeroAmountRejected ==
    /\ [](\A i \in 0..1 : \A s \in Users :
             swap(tokens, overflow_checks, s, i, 0).ret.status = "panic")
    /\ [][ (last'.op = "ft_on_transfer" /\ last'.amount = 0) =>
             /\ tokens' = tokens
             /\ promises' = promises
             /\ last'.ret.status = "panic" ]_vars

\* The owner's notification of amount 0 from a configured token was rejected
\* by a funded pool.
C7_Witness ==
    /\ last.op = "ft_on_transfer"
    /\ last.amount = 0
    /\ last.sender_id = owner
    /\ last.predecessor_id = tokens[0].address
    /\ last.ret = Panic("Amount must be positive.")
    /\ tokens[0].balance > 0
    /\ tokens[1].balance > 0

\* C8 (the claim as stated; the code violates it).  With the input slot's
\* balance and the amount both at least MAX / 2, the quote of a user's swap
\* raises no arithmetic panic and does not wrap, and a quote that is sent
\* satisfies amount_out <= Rout.
C8_QuoteNearMaxNeitherWrapsNorPanics ==
    [][ \A i \in 0..1 :
          (/\ AcceptedNotifyFor(i)
           /\ last'.sender_id # owner
           /\ tokens[i].balance >= MAX \div 2
           /\ last'.amount >= MAX \div 2) =>
             /\ last'.ret.msg \notin ArithmeticPanics
             /\ last'.ret.status = "promise" =>
                   /\ last'.pr.balance_a = tokens[i].balance + last'.amount
                   /\ last'.pr.amount_out <= tokens[1 - i].balance ]_vars

\* C9 (the claim as stated, for a swap whose input is slot 0 and whose sum
\* fits the balance type, so that the commit writes the balances C1
\* describes).  get_ratio returns after a committed swap what it returned
\* before the swap.
C9_RatioSameAfterCommittedSwap ==
    [][ (/\ SwapCallbackStep("ok")
         /\ last'.pr.clean
         /\ last'.pr.token_in = 0
         /\ last'.pr.balance_a = last'.pr.rin + last'.pr.amount) =>
          get_ratio(tokens', overflow_checks) = get_ratio(tokens, overflow_checks) ]_vars

\* C9 (amended).  get_ratio returns the same after a user's notification
\* (a swap initiated, or rejected) and after a swap_callback whose transfer
\* failed as before it: a swap changes the ratio only when its callback
\* commits.
C9_RatioSameUntilCommit ==
    [][ (\/ (last'.op = "ft_on_transfer" /\ last'.sender_id # owner)
         \/ SwapCallbackStep("err")) =>
          get_ratio(tokens', overflow_checks) = get_ratio(tokens, overflow_checks) ]_vars

\* A user's swap has been initiated on a pool whose ratio is a positive value.
C9_Witness ==
    /\ last.op = "ft_on_transfer"
    /\ last.sender_id # owner
    /\ last.ret.status = "promise"
    /\ BagCardinality(promises) = 1
    /\ get_ratio(tokens, overflow_checks).status = "value"
    /\ get_ratio(tokens, overflow_checks).value > 0

\* 10^decimals of slot i, and the slot's balance in whole display units.
Unit(i) == 10^(unwrap(tokens[i].metadata).decimals)
Whole(i) == tokens[i].balance \div Unit(i)

\* C10 (the claim as stated).  With both slots' metadata set, get_ratio
\* returns floor(balance_0 / 10^decimals_0) * floor(balance_1 / 10^decimals_1).
C10_RatioIsProductOfWholeUnits ==
    (/\ last.op = "get_ratio"
     /\ is_some(tokens[0].metadata)
     /\ is_some(tokens[1].metadata)) =>
       last.ret = Value(Whole(0) * Whole(1))

\* 10^decimals of slot i as a wrapping u128 power gives it.
WrappedUnit(i) == Unit(i) % (MAX + 1)

\* C10 (amended).  The same, when 10^decimals of both slots and the product
\* fit the balance type; it is then 0 when either balance is below one whole
\* unit.  When one of them does not fit, a build with overflow checks panics;
\* a build without them fails with a division by zero when a power wraps to
\* 0, and otherwise returns the product, modulo 2^Width, of the balances
\* divided by the wrapped powers.
C10_RatioIsProductOfWholeUnitsIfItFits ==
    (/\ last.op = "get_ratio"
     /\ is_some(tokens[0].metadata)
     /\ is_some(tokens[1].metadata)) =>
       IF Unit(0) <= MAX /\ Unit(1) <= MAX /\ Whole(0) * Whole(1) <= MAX
       THEN /\ last.ret = Value(Whole(0) * Whole(1))
            /\ (tokens[0].balance < Unit(0) \/ tokens[1].balance < Unit(1))
                  => last.ret = Value(0)
       ELSE IF overflow_checks
       THEN last.ret = Panic("attempt to multiply with overflow")
       ELSE IF WrappedUnit(0) = 0 \/ WrappedUnit(1) = 0
       THEN last.ret = Panic("attempt to divide by zero")
       ELSE last.ret = Value(((tokens[0].balance \div WrappedUnit(0))
                              * (tokens[1].balance \div WrappedUnit(1))) % (MAX + 1))

\* get_ratio has returned a product of at least 2 for a slot-0 balance that is
\* not a whole number of units and a slot-1 balance with other decimals.
C10_Witness ==
    /\ last.op = "get_ratio"
    /\ last.ret.status = "value"
    /\ last.ret.value >= 2
    /\ unwrap(tokens[0].metadata).decimals = 1
    /\ unwrap(tokens[1].metadata).decimals = 0
    /\ tokens[0].balance % 10 # 0

\* The address is neither slot's address.
Unknown(token) == token # tokens[0].address /\ token # tokens[1].address

MetadataPanics ==
    {"Metadata not initialized for index 0.", "Metadata not initialized for index 1."}

\* C11.  In every state where slot 0's or slot 1's metadata is unset,
\* get_ratio fails with one of its two "Metadata not initialized" messages and
\* returns no value.
C11_RatioFailsWithoutMetadata ==
    (/\ last.op = "get_ratio"
     /\ (~is_some(tokens[0].metadata) \/ ~is_some(tokens[1].metadata))) =>
       /\ last.ret.status = "panic"
       /\ last.ret.msg \in MetadataPanics

\* get_ratio has failed on a pool whose slot 0 has its metadata and whose
\* slot 1 has none.
C11_Witness ==
    /\ last.op = "get_ratio"
    /\ is_some(tokens[0].metadata)
    /\ ~is_some(tokens[1].metadata)
    /\ last.ret = Panic("Metadata not initialized for index 1.")

\* C12 (the claim as stated; the code violates it).  get_balance and
\* get_metadata of an address that is neither slot's address fail, and not for
\* missing metadata: they return no slot's balance or metadata.
C12_UnknownAddressRejectedByViews ==
    (/\ last.op \in {"get_balance", "get_metadata"}
     /\ Unknown(last.token)) =>
       /\ last.ret.status = "panic"
       /\ last.ret.msg # "Metadata is not initialized!"

\* C13.  update_metadata of an address that is neither slot's address fails:
\* no query is issued and no slot changes.
C13_UnknownAddressRejectedByUpdate ==
    [][ (last'.op = "update_metadata" /\ Unknown(last'.token)) =>
          /\ last'.ret = Panic("Wrong token provided.")
          /\ promises' = promises
          /\ tokens' = tokens ]_vars

\* update_metadata of a foreign address was rejected by a pool that has
\* slot 0's metadata.
C13_Witness ==
    /\ last.op = "update_metadata"
    /\ Unknown(last.token)
    /\ last.ret = Panic("Wrong token provided.")
    /\ is_some(tokens[0].metadata)
    /\ last.pr = NoPromise

\* C14 (the claim as stated; the code violates it on a pool whose two slots
\* have the same address).  A slot's metadata becomes present only in a
\* successful metadata_callback for that slot; while it is absent get_metadata
\* of the slot's address fails; and after the callback get_metadata of the
\* slot's address returns the record the token contract at that address
\* answered.
C14_MetadataSetByOwnCallbackOnly ==
    /\ [](\A i \in 0..1 :
            ~is_some(tokens[i].metadata) =>
               get_metadata(tokens, tokens[i].address)
                  = [status |-> "panic", value |-> None,
                     msg |-> "Metadata is not initialized!"])
    /\ [][ /\ \A i \in 0..1 :
               (~is_some(tokens[i].metadata) /\ is_some(tokens'[i].metadata)) =>
                  /\ last'.op = "metadata_callback"
                  /\ last'.result = "ok"
                  /\ last'.pr.index = i
          /\ (last'.op = "metadata_callback" /\ last'.result = "ok") =>
               LET i == last'.pr.index
               IN /\ last'.pr.token = tokens[i].address
                  /\ tokens'[1 - i] = tokens[1 - i]
                  /\ get_metadata(tokens', tokens[i].address)
                        = [status |-> "value",
                           value |-> Some(ft_metadata(tokens[i].address, last'.amount)),
                           msg |-> ""] ]_vars

\* The swaps in flight.
Transfers == {pr \in BagToSet(promises) : pr.kind = "ft_transfer"}

\* C15.  A user's notification that passes the guards (a swap initiated, or
\* rejected by swap) leaves both slots as they are, so get_balance of every
\* address returns what it returned before; and as long as no deposit and no
\* other callback has committed since, the balances of both slots are the
\* reserves the swap in flight read.
C15_InitiationWritesNoBalance ==
    /\ [](\A pr \in Transfers :
            pr.clean => /\ tokens[pr.token_in].balance = pr.rin
                        /\ tokens[1 - pr.token_in].balance = pr.rout)
    /\ [][ \A i \in 0..1 :
             (AcceptedNotifyFor(i) /\ last'.sender_id # owner) =>
                /\ tokens' = tokens
                /\ \A t \in TokenAccounts :
                      get_balance(tokens', t) = get_balance(tokens, t)
                /\ last'.ret.status = "promise" =>
                      /\ last'.pr \in Transfers'
                      /\ last'.pr.clean ]_vars

\* A user's swap with input on slot 1 is in flight on a pool with both
\* balances positive, and both balances are the ones it read.
C15_Witness ==
    /\ last.op = "ft_on_transfer"
    /\ last.sender_id # owner
    /\ last.ret.status = "promise"
    /\ last.pr \in Transfers
    /\ last.pr.token_in = 1
    /\ last.pr.amount_out > 0
    /\ tokens[1].balance = last.pr.rin
    /\ tokens[0].balance = last.pr.rout
    /\ tokens[1].balance > 0

\* C16 (the claim as stated; the code violates it).  For every user's swap
\* with amount > 0 the narrowing of the quotient to the balance type does not
\* fail, the swap is not rejected for "not enough funds", and a quote that is
\* sent satisfies 0 <= amount_out <= Rout.
C16_QuoteWithinOutputReserve ==
    [][ \A i \in 0..1 :
          (AcceptedNotifyFor(i) /\ last'.sender_id # owner) =>
             /\ last'.ret.msg # "Integer overflow when casting to u128"
             /\ last'.ret.msg # "Not enough funds to complete the trade."
             /\ last'.ret.status = "promise" =>
                   /\ 0 <= last'.pr.amount_out
                   /\ last'.pr.amount_out <= tokens[1 - i].balance ]_vars

\* token_out_amount as swap computes it for input `amount` on slot i of the
\* slots tk, or -1 when the computation panics.
QuoteOf(tk, i, amount) ==
    LET q == quote(tk, overflow_checks, i, amount)
    IN IF q.ret.status = "value" THEN q.token_out_amount ELSE -1

\* C17 (the claim as stated; the code violates it).  The quote a user's swap
\* computes is at least the quote of every smaller amount on the same
\* reserves, and at least the quote of the same amount on every smaller
\* output reserve.
C17_QuoteMonotone ==
    [][ \A i \in 0..1 :
          (AcceptedNotifyFor(i) /\ last'.sender_id # owner
                                /\ QuoteOf(tokens, i, last'.amount) >= 0) =>
             /\ \A a \in 1..last'.amount :
                   QuoteOf(tokens, i, a) <= QuoteOf(tokens, i, last'.amount)
             /\ \A r \in 0..tokens[1 - i].balance :
                   QuoteOf([tokens EXCEPT ![1 - i].balance = r], i, last'.amount)
                      <= QuoteOf(tokens, i, last'.amount) ]_vars

\* The step just taken is an owner's deposit that was accepted.
OwnerDepositStep ==
    /\ last'.op = "ft_on_transfer"
    /\ last'.sender_id = owner
    /\ last'.ret = Value(0)

BalancesUnchanged ==
    /\ tokens'[0].balance = tokens[0].balance
    /\ tokens'[1].balance = tokens[1].balance

\* A slot's balance changes only in an accepted owner deposit or in a
\* swap_callback whose transfer succeeded; every other step (the views,
\* update_metadata, metadata_callback, a plain transfer, a rejected
\* notification, a swap's initiation, a failed-transfer callback) leaves both
\* balances as they are.
BalanceWrittenOnlyByCommits ==
    /\ ~BalancesUnchanged => (OwnerDepositStep \/ SwapCallbackStep("ok"))
    /\ (\/ last'.op \in {"get_balance", "get_metadata", "get_ratio", "ft_transfer",
                          "update_metadata", "metadata_callback"}
        \/ (last'.op = "ft_on_transfer" /\ last'.ret.status # "value")
        \/ SwapCallbackStep("err")) => BalancesUnchanged

\* C18 (the claim as stated; the code violates its last part).  Balances
\* change only in the two commits, and a balance decreases only in a
\* swap_callback whose transfer succeeded.
C18_BalanceChangesOnlyInCommits ==
    [][ /\ BalanceWrittenOnlyByCommits
        /\ (\E i \in 0..1 : tokens'[i].balance < tokens[i].balance)
              => SwapCallbackStep("ok") ]_vars

\* The call that ran last was a swap_callback that committed, and the step
\* just taken is the successful callback of another swap: that swap was in
\* flight, already quoted, when the first callback ran.
SecondOfTwoCommits ==
    /\ last.op = "swap_callback"
    /\ last.result = "ok"
    /\ SwapCallbackStep("ok")

\* C19 (the claim as stated).  Of two swaps in flight at the same time whose
\* transfers both succeed, the callback that commits first wins: the second
\* callback leaves the balances the first one wrote.
C19_FirstCommittedWins ==
    [][ SecondOfTwoCommits => BalancesUnchanged ]_vars

\* C19 (amended).  The callback that commits last wins: after both have run
\* the balances are the ones the second callback wrote, which its swap
\* computed from the reserves it read at its quote, whatever the first
\* callback had written.
C19_LastCommittedWins ==
    [][ SecondOfTwoCommits =>
          LET pr == last'.pr
          IN /\ tokens'[0].balance = pr.balance_a
             /\ tokens'[1].balance = pr.balance_b
             /\ pr.balance_a = (pr.rin + pr.amount) % (MAX + 1)
             /\ pr.balance_b = pr.rout - pr.amount_out ]_vars

\* The first of two swaps that were quoted on the same reserves has committed
\* and the second is still in flight, with other balances to write than the
\* ones the first wrote.
C19_Witness ==
    /\ last.op = "swap_callback"
    /\ last.result = "ok"
    /\ \E pr \in Transfers :
         /\ pr.token_in = last.pr.token_in
         /\ pr.rin = last.pr.rin
         /\ pr.rout = last.pr.rout
         /\ ~pr.clean
         /\ <<pr.balance_a, pr.balance_b>> # <<tokens[0].balance, tokens[1].balance>>

\* The receipt pr of a swap, as it is counted in Receipts.
Receipt(pr) == SetToBag({[pr EXCEPT !.clean = FALSE]})

\* C20.  A swap that passes validation is quoted: its receipt, and only it,
\* is added to the receipts in flight.  A receipt leaves them only in a run of
\* swap_callback, which takes exactly that one receipt and either commits
\* (transfer succeeded: the balances it carries are written, nothing is
\* refundable) or rolls back (transfer failed: no slot changes, the input
\* amount is refundable), never both.  With every transfer answering, the
\* swaps in flight are all resolved at some time.
C20_QuotedThenCommittedOrRolledBack ==
    /\ [][ /\ (last'.op = "ft_on_transfer" /\ last'.ret.status = "promise") =>
                /\ last'.pr.kind = "ft_transfer"
                /\ last'.pr.amount > 0
                /\ Receipts(promises') = Receipts(promises) (+) Receipt(last'.pr)
           /\ (last'.op = "ft_on_transfer" /\ last'.ret.status # "promise") =>
                Receipts(promises') = Receipts(promises)
           /\ last'.op = "swap_callback" =>
                /\ last'.pr \in Transfers
                /\ Receipts(promises') (+) Receipt(last'.pr) = Receipts(promises)
                /\ \/ /\ last'.result = "ok"
                      /\ last'.ret = Value(0)
                      /\ tokens'[0].balance = last'.pr.balance_a
                      /\ tokens'[1].balance = last'.pr.balance_b
                   \/ /\ last'.result = "err"
                      /\ last'.ret = Value(last'.pr.amount)
                      /\ tokens' = tokens ]_vars
    /\ (Transfers # {}) ~> (Transfers = {})

\* A swap that a deposit or another swap's commit overtook has been rolled
\* back with its input amount refundable, and no swap is left in flight.
C20_Witness ==
    /\ last.op = "swap_callback"
    /\ last.result = "err"
    /\ last.ret = Value(last.pr.amount)
    /\ ~last.pr.clean
    /\ Transfers = {}
    /\ tokens[0].balance + tokens[1].balance > 0

\* The step just taken is a metadata_callback that wrote slot i's metadata.
MetadataSetStep(i) ==
    /\ last'.op = "metadata_callback"
    /\ last'.result = "ok"
    /\ last'.pr.index = i

\* C21.  A metadata_callback whose query failed writes nothing: both slots
\* (metadata and balances) are as before, whether the queried slot had no
\* metadata or an earlier record.  A slot without metadata stays without it,
\* and get_metadata of its slot and get_ratio keep failing, on every step
\* that is not a successful metadata_callback for that slot.
C21_FailedQueryWritesNothing ==
    [][ /\ (last'.op = "metadata_callback" /\ last'.result = "err") =>
              /\ tokens' = tokens
              /\ last'.ret.status = "panic"
        /\ \A i \in 0..1 :
              (~is_some(tokens[i].metadata) /\ ~MetadataSetStep(i)) =>
                 /\ ~is_some(tokens'[i].metadata)
                 /\ get_ratio(tokens', overflow_checks).status = "panic"
                 /\ (i = get_token_index(tokens', tokens'[i].address)) =>
                       get_metadata(tokens', tokens'[i].address).status = "panic" ]_vars

\* A refresh of slot 0's metadata has failed and slot 0 keeps the earlier
\* record, while slot 1 is still without metadata.
C21_Witness ==
    /\ last.op = "metadata_callback"
    /\ last.result = "err"
    /\ last.pr.index = 0
    /\ is_some(tokens[0].metadata)
    /\ unwrap(tokens[0].metadata).name = tokens[0].address
    /\ ~is_some(tokens[1].metadata)
    /\ tokens[0].address # tokens[1].address

\* The call that ran last was an owner's deposit of d > 0 into slot i, and the
\* step just taken is the successful callback of a swap that was in flight
\* when the deposit ran.
CommitAfterDeposit(i) ==
    /\ last.op = "ft_on_transfer"
    /\ last.sender_id = owner
    /\ last.ret = Value(0)
    /\ last.predecessor_id = tokens[i].address
    /\ i = get_token_index(tokens, last.predecessor_id)
    /\ SwapCallbackStep("ok")

\* C23 (the claim as stated; the code violates it).  After the commit of a
\* swap that was in flight while the owner deposited d into slot i, slot i's
\* balance includes d: it is the balance the swap computed for that slot
\* plus d.
C23_DepositDuringSwapIsKept ==
    [][ \A i \in 0..1 :
          CommitAfterDeposit(i) =>
             tokens'[i].balance =
                (IF i = 0 THEN last'.pr.balance_a ELSE last'.pr.balance_b) + last.amount ]_vars

\* The step just taken committed a swap that no deposit and no other commit
\* overtook: the balances before it are the reserves the swap read.
CleanCommit ==
    /\ SwapCallbackStep("ok")
    /\ last'.pr.clean

\* C24 (the claim as stated; the code violates it).  The commit of a swap that
\* nothing overtook does not decrease the product of the two balances, for
\* input on either slot.
C24_ProductNotDecreasedByCommit ==
    [][ CleanCommit =>
          tokens'[0].balance * tokens'[1].balance
             >= tokens[0].balance * tokens[1].balance ]_vars

\* C25 (the claim as stated; the code violates it).  A quote that is sent for
\* a positive input reserve is below the output reserve, and the commit of a
\* swap that nothing overtook on two positive balances leaves both positive.
C25_OutputReserveNotEmptied ==
    [][ /\ \A i \in 0..1 :
              (/\ AcceptedNotifyFor(i)
               /\ last'.sender_id # owner
               /\ last'.ret.status = "promise"
               /\ tokens[i].balance > 0) =>
                 last'.pr.amount_out < tokens[1 - i].balance
        /\ (CleanCommit /\ tokens[0].balance > 0 /\ tokens[1].balance > 0) =>
              (tokens'[0].balance > 0 /\ tokens'[1].balance > 0) ]_vars

\* C26 (the claim as stated; the code violates it).  The two slots have
\* distinct addresses in every state, an accepted notification comes from the
\* token of exactly one slot, and a swap sends another token than the one it
\* received.
C26_SlotAddressesDistinct ==
    /\ [](tokens[0].address # tokens[1].address)
    /\ [][ \A i \in 0..1 :
             AcceptedNotifyFor(i) =>
                /\ last'.predecessor_id # tokens[1 - i].address
                /\ last'.ret.status = "promise" =>
                      last'.pr.token # last'.predecessor_id ]_vars

\* C22 (the claim as stated; the code violates it).  With no swap in flight
\* (no transfer of a swap unanswered, no transfer to the AMM unsettled on its
\* token's ledger), each slot's recorded balance is at most what the AMM's
\* account holds of that slot's token.
C22_RecordedBalanceIsHeld ==
    (Transfers = {} /\ inflight = EmptyBag) =>
       \A i \in 0..1 : tokens[i].balance <= ft_balance_of(held, tokens[i].address)

====
